---------------------------- MODULE Spec2Model ----------------------------
(***************************************************************************)
(* Ingredient reconciliation (ingredients_parser_0.312/Analyser.py and     *)
(* test3.py): the EWG client with its request limiter, the staged matcher  *)
(* IngredientAnalyzer.smart_analyze / smart_analyze_list, and the client's *)
(* _make_request as a timed, possibly concurrent, procedure.               *)
(*                                                                         *)
(* Strings are sequences of one-character strings.                         *)
(***************************************************************************)
EXTENDS Integers, Sequences, FiniteSets, TLC

VARIABLES
    \* ---- the reference service, fixed for one run
    catalogue,        \* names of the records the service holds
    loose,            \* queries for which the search page also lists a non-equal record
    \* ---- IngredientAnalyzer.smart_analyze_list
    ingredient_list,  \* the argument
    pc,               \* position in smart_analyze_list
    k,                \* index of the phase-1 for loop (1-based, next token to analyse)
    results,          \* results
    unmatched,        \* unmatched
    i,                \* scan index of the combine and final loops (0-based, as in the code)
    unmatchedPos,     \* history: input position of each entry of unmatched
    queries,          \* history: the queries issued so far
    \* ---- EWGSkindeepAPI._make_request under a clock
    now,              \* time.time()
    last_request_time,\* per client instance
    callers,          \* the threads that use the client
    driver,           \* the code that makes the calls: "Analyser.py" or "test3.py"
    req,              \* per thread: "search" or "page", the request of the current call
    tpc,              \* per thread: position in get_ingredient_data / _make_request
    inst,             \* per thread: the client instance of the current call
    elapsed,          \* per thread: the local of _make_request
    wake,             \* per thread: earliest return time of time.sleep
    sent,             \* history: the requests sent, in order of their start
    \* ---- one call of analyze_ingredient / get_ingredient_data with HTTP statuses
    request,          \* the argument and the status codes the service answers with
    response,         \* the dict under construction / returned
    qpc,              \* position in get_ingredient_data
    \* ---- parse_ingredients_from_ocr (test3.py)
    ocr_text,         \* the argument
    ppc,              \* position in parse_ingredients_from_ocr
    ingredients_text, \* ingredients_text
    processed_items,  \* processed_items
    final_ingredients \* final_ingredients, the value returned

listVars == <<ingredient_list, pc, k, results, unmatched, i, unmatchedPos, queries>>
svcVars  == <<catalogue, loose>>
rateVars == <<now, last_request_time, callers, driver, req, tpc, inst, elapsed,
              wake, sent>>
queryVars == <<request, response, qpc>>
parseVars == <<ocr_text, ppc, ingredients_text, processed_items, final_ingredients>>
vars     == <<catalogue, loose, ingredient_list, pc, k, results, unmatched, i,
              unmatchedPos, queries, now, last_request_time, callers, driver,
              req, tpc, inst, elapsed, wake, sent, request, response, qpc,
              ocr_text, ppc, ingredients_text, processed_items,
              final_ingredients>>

---------------------------------------------------------------------------
(* Bounds of the model *)

\* longest ingredient list handed to smart_analyze_list
MaxTokens == 3
\* last clock value
MaxTime == 7
\* most requests one thread sends
MaxRequests == 3
\* the client's rate_limit, in clock ticks
RateLimit == 2

---------------------------------------------------------------------------
(* Strings *)

\* str.lower() on one character
LowerMap ==
    [c \in {"A","B","C","D","E","F","G","H","I","J","K","L","M",
            "N","O","P","Q","R","S","T","U","V","W","X","Y","Z"} |->
        CASE c = "A" -> "a" [] c = "B" -> "b" [] c = "C" -> "c" [] c = "D" -> "d"
          [] c = "E" -> "e" [] c = "F" -> "f" [] c = "G" -> "g" [] c = "H" -> "h"
          [] c = "I" -> "i" [] c = "J" -> "j" [] c = "K" -> "k" [] c = "L" -> "l"
          [] c = "M" -> "m" [] c = "N" -> "n" [] c = "O" -> "o" [] c = "P" -> "p"
          [] c = "Q" -> "q" [] c = "R" -> "r" [] c = "S" -> "s" [] c = "T" -> "t"
          [] c = "U" -> "u" [] c = "V" -> "v" [] c = "W" -> "w" [] c = "X" -> "x"
          [] c = "Y" -> "y" [] c = "Z" -> "z"]

LowerChar(c) == IF c \in DOMAIN LowerMap THEN LowerMap[c] ELSE c

\* str.lower()
Lower(s) == [n \in 1..Len(s) |-> LowerChar(s[n])]

\* a in b, for strings
Contains(b, a) ==
    \E st \in 0..(Len(b) - Len(a)) :
        \A n \in 1..Len(a) : b[st + n] = a[n]

Max(a, b) == IF a >= b THEN a ELSE b

\* one row of the longest-common-subsequence table: prev is the row of the
\* previous character of a, acc the part of the new row built so far
\* (rows are indexed 1..Len(b)+1 for columns 0..Len(b))
RECURSIVE LcsRow(_, _, _, _)
LcsRow(prev, c, b, acc) ==
    LET j == Len(acc) IN   \* column to fill (columns 0..j-1 are filled)
    IF j > Len(b) THEN acc
    ELSE LcsRow(prev, c, b,
                Append(acc, IF c = b[j] THEN prev[j] + 1
                            ELSE Max(prev[j + 1], acc[j])))

RECURSIVE LcsFrom(_, _, _, _)
LcsFrom(a, b, n, prev) ==
    IF n > Len(a) THEN prev[Len(b) + 1]
    ELSE LcsFrom(a, b, n + 1, LcsRow(prev, a[n], b, <<0>>))

Lcs(a, b) == LcsFrom(a, b, 1, [j \in 1..(Len(b) + 1) |-> 0])

\* Levenshtein.ratio(a, b) > 0.9, where ratio = 2 * lcs / (len(a) + len(b))
\* (substitutions cost 2) and the ratio of two empty strings is 1
RatioAbove90(a, b) ==
    IF Len(a) + Len(b) = 0 THEN TRUE
    ELSE 20 * Lcs(a, b) > 9 * (Len(a) + Len(b))

\* Python's None where a string is expected
None == <<"<None>">>

---------------------------------------------------------------------------
(* The reference service: what a search page lists for a query *)

gum     == <<"g","u","m">>
oil     == <<"o","i","l">>
gum_oil == <<"g","u","m"," ","o","i","l">>

\* the tokens an ingredient list is drawn from
Vocabulary == {gum, oil, gum_oil}

\* the records the service may hold, in the order its pages list them
CatalogueOrder ==
    << <<"G","u","m">>,
       gum,
       oil,
       gum_oil,
       <<"g","u","m",","," ","o","i","l">> >>

CatalogueNames == {CatalogueOrder[n] : n \in 1..Len(CatalogueOrder)}

\* a record of a search page: the text of .product-name and the href of its link
Tile(name) == [name |-> name, url |-> <<"/">> \o name]

\* a listed record whose name is not the query: the query followed by " x"
LooseTile(q) == Tile(q \o <<" ","x">>)

\* the .product-tile elements of the page the service answers a search with:
\* the non-equal record if the service has one for the query, then every held
\* record whose name is the query up to letter case
SearchPage(q) ==
    (IF q \in loose THEN <<LooseTile(q)>> ELSE <<>>)
    \o SelectSeq([n \in 1..Len(CatalogueOrder) |-> Tile(CatalogueOrder[n])],
                 LAMBDA r : r.name \in catalogue /\ Lower(r.name) = Lower(q))

---------------------------------------------------------------------------
(* EWGSkindeepAPI *)

\* the loop of find_matches from product n on; best is (best_match,
\* best_match_link) so far
RECURSIVE FindFrom(_, _, _, _, _)
FindFrom(page, term, exact_match_only, n, best) ==
    IF n > Len(page)
    THEN IF exact_match_only THEN [name |-> None, url |-> None]
         ELSE IF best.name # None /\ best.name # <<>> THEN best
         ELSE IF Len(page) > 0 THEN page[1]
         ELSE [name |-> None, url |-> None]
    ELSE IF Lower(term) = Lower(page[n].name) THEN page[n]
    ELSE IF Contains(Lower(page[n].name), Lower(term))
            /\ (best.name = None \/ best.name = <<>>)
         THEN FindFrom(page, term, exact_match_only, n + 1, page[n])
         ELSE FindFrom(page, term, exact_match_only, n + 1, best)

find_matches_ExactOnly(page, term, exact_match_only) ==
    FindFrom(page, term, TRUE, 1, [name |-> None, url |-> None])

find_matches(page, term, exact_match_only) ==
    FindFrom(page, term, exact_match_only, 1, [name |-> None, url |-> None])

\* "not x" for a string or None
Falsy(x) == x = None \/ x = <<>>

\* the dict get_ingredient_data returns, without the scraped page fields;
\* none is TRUE only for the Python None that stands where a dict may
NoData == [none |-> TRUE, search_term |-> None, ingredient_found |-> FALSE,
           exact_match |-> FALSE, name |-> None, url |-> None,
           match_type |-> "unset"]

get_ingredient_data(search_term, exact_match_only) ==
    LET m == find_matches(SearchPage(search_term), search_term, exact_match_only)
        base == [NoData EXCEPT !.none = FALSE, !.search_term = search_term]
    IN  IF Falsy(m.name) \/ Falsy(m.url) THEN base
        ELSE [base EXCEPT !.ingredient_found = TRUE,
                          !.name = m.name,
                          !.url = m.url,
                          !.exact_match = RatioAbove90(search_term, m.name)]

\* IngredientAnalyzer.analyze_ingredient (EWGSkindeepAPI.analyze_ingredient is the same)
analyze_ingredient(ingredient) ==
    LET r == get_ingredient_data(ingredient, TRUE)
    IN  [r EXCEPT !.match_type =
            IF r.ingredient_found /\ r.exact_match
            THEN "exact" ELSE "no_exact_match"]

IsExact(r) == r.ingredient_found /\ r.exact_match

---------------------------------------------------------------------------
(* IngredientAnalyzer.smart_analyze *)

\* the characters of the class [\s,/\-]
IsSeparator(c) == c \in {" ", "\t", "\n", "\r", ",", "/", "-"}

\* re.split(r"[\s,/\-]+", s) from character n on: done are the pieces closed so
\* far, cur the piece being read, inSep whether the last character read was a
\* separator
RECURSIVE SplitFrom(_, _, _, _, _)
SplitFrom(s, n, done, cur, inSep) ==
    IF n > Len(s) THEN Append(done, cur)
    ELSE IF IsSeparator(s[n])
         THEN IF inSep THEN SplitFrom(s, n + 1, done, cur, TRUE)
              ELSE SplitFrom(s, n + 1, Append(done, cur), <<>>, TRUE)
         ELSE SplitFrom(s, n + 1, done, Append(cur, s[n]), FALSE)

StopWords == { <<"a","n","d">>, <<"w","i","t","h">>, <<"p","l","u","s">>,
               <<"t","h","e">> }

\* the list words of smart_analyze after its filter
SplitWords(ingredient) ==
    SelectSeq(SplitFrom(ingredient, 1, <<>>, <<>>, FALSE),
              LAMBDA w : Len(w) > 2 /\ Lower(w) \notin StopWords)

\* one entry of the history of queries
Query(term, exact_match_only, phase, pos) ==
    [term |-> term, exact_only |-> exact_match_only, phase |-> phase, pos |-> pos]

Result_CorrectedOriginal(original, corrected, match_type, data, pos) ==
    [original |-> original, corrected |-> original, match_type |-> match_type,
     data |-> data, pos |-> pos]

\* a result dict; pos (history) are the input positions it was derived from
Result(original, corrected, match_type, data, pos) ==
    [original |-> original, corrected |-> corrected, match_type |-> match_type,
     data |-> data, pos |-> pos]

\* found_matches of smart_analyze: the split_exact results of the words, in order
FoundMatches(words, p) ==
    LET hit(w) == IsExact(analyze_ingredient(w))
        ws == SelectSeq(words, hit)
    IN  [n \in 1..Len(ws) |->
            Result(ws[n], ws[n], "split_exact", analyze_ingredient(ws[n]), <<p>>)]

\* smart_analyze(ingredient), for the token at input position p
smart_analyze(ingredient, p) ==
    LET direct == analyze_ingredient(ingredient)
        words  == SplitWords(ingredient)
        found_matches == IF Len(words) > 1 THEN FoundMatches(words, p) ELSE <<>>
        fuzzy  == get_ingredient_data(ingredient, FALSE)
    IN  IF IsExact(direct)
        THEN Result(ingredient, ingredient, "exact", direct, <<p>>)
        ELSE IF Len(found_matches) > 0 THEN found_matches[1]
        ELSE IF fuzzy.ingredient_found
        THEN Result(ingredient, fuzzy.name, "fuzzy", fuzzy, <<p>>)
        ELSE Result(ingredient, None, "no_match", NoData, <<p>>)

\* history: the queries smart_analyze(ingredient) issues, in order, given its
\* result r
SmartQueries(ingredient, p, r) ==
    LET words == SplitWords(ingredient)
        q1 == <<Query(ingredient, TRUE, "direct", <<p>>)>>
        q2 == IF Len(words) > 1
              THEN [n \in 1..Len(words) |-> Query(words[n], TRUE, "split", <<p>>)]
              ELSE <<>>
    IN  IF r.match_type = "exact" THEN q1
        ELSE IF r.match_type = "split_exact" THEN q1 \o q2
        ELSE q1 \o q2 \o <<Query(ingredient, FALSE, "fuzzy", <<p>>)>>

---------------------------------------------------------------------------
(* IngredientAnalyzer.smart_analyze_list *)

Threads == {1, 2}

\* no call of get_ingredient_data is being followed step by step
QueryIdle ==
    /\ request = [term |-> <<>>, exact_match_only |-> TRUE,
                  search_status |-> 200, page_status |-> 200]
    /\ response = NoData
    /\ qpc = "idle"

\* no call of parse_ingredients_from_ocr is being followed
ParseIdle ==
    /\ ocr_text = <<>>
    /\ ppc = "idle"
    /\ ingredients_text = None
    /\ processed_items = <<>>
    /\ final_ingredients = <<>>

\* the limiter's variables while no request procedure is being followed
RateIdle ==
    /\ now = RateLimit
    /\ last_request_time = [c \in {"ewg", "fresh"} |-> 0]
    /\ callers = {}
    /\ driver = "Analyser.py"
    /\ req = [t \in Threads |-> "search"]
    /\ tpc = [t \in Threads |-> "idle"]
    /\ inst = [t \in Threads |-> "ewg"]
    /\ elapsed = [t \in Threads |-> 0]
    /\ wake = [t \in Threads |-> 0]
    /\ sent = <<>>

\* the lists of length 0..MaxTokens over the vocabulary
TokenLists == UNION {[1..n -> Vocabulary] : n \in 0..MaxTokens}

\* entry of smart_analyze_list(ingredient_list): results = [], unmatched = []
Init ==
    /\ catalogue \in SUBSET CatalogueNames
    /\ loose \in SUBSET Vocabulary
    /\ ingredient_list \in TokenLists
    /\ pc = "phase1"
    /\ k = 1
    /\ results = <<>>
    /\ unmatched = <<>>
    /\ i = 0
    /\ unmatchedPos = <<>>
    /\ queries = <<>>
    /\ RateIdle
    /\ QueryIdle
    /\ ParseIdle

KeptInPhase1_FuzzyOnly(result) == result.match_type \in {"fuzzy"}

\* result["match_type"] in ["exact", "fuzzy"]
KeptInPhase1(result) == result.match_type \in {"exact", "fuzzy"}

\* one iteration of "for ingredient in ingredient_list"
Phase1Step ==
    /\ pc = "phase1"
    /\ k <= Len(ingredient_list)
    /\ LET ingredient == ingredient_list[k]
           result == smart_analyze(ingredient, k)
       IN  /\ IF KeptInPhase1(result)
              THEN /\ results' = Append(results, result)
                   /\ UNCHANGED <<unmatched, unmatchedPos>>
              ELSE /\ unmatched' = Append(unmatched, ingredient)
                   /\ unmatchedPos' = Append(unmatchedPos, k)
                   /\ UNCHANGED results
           /\ queries' = queries \o SmartQueries(ingredient, k, result)
    /\ k' = k + 1
    /\ UNCHANGED <<ingredient_list, pc, i>>
    /\ UNCHANGED svcVars /\ UNCHANGED queryVars /\ UNCHANGED parseVars /\ UNCHANGED rateVars

\* the for loop is exhausted: "if len(unmatched) >= 2: i = 0", else return
Phase1End ==
    /\ pc = "phase1"
    /\ k > Len(ingredient_list)
    /\ IF Len(unmatched) >= 2
       THEN pc' = "combine" /\ i' = 0
       ELSE pc' = "done" /\ UNCHANGED i
    /\ UNCHANGED <<ingredient_list, k, results, unmatched, unmatchedPos, queries>>
    /\ UNCHANGED svcVars /\ UNCHANGED queryVars /\ UNCHANGED parseVars /\ UNCHANGED rateVars

NextIndex_AlwaysTwo(matched) == i + 2

NextIndex_AlwaysOne(matched) == i + 1

NextIndex_StayOnFailure(matched) == IF matched THEN i + 2 ELSE i

\* the scan index after an iteration of the combine loop: "i += 2" when one of
\* the two combined queries matched, "i += 1" when neither did
NextIndex(matched) == IF matched THEN i + 2 ELSE i + 1

\* one iteration of "while i < len(unmatched) - 1"
CombineStep ==
    /\ pc = "combine"
    /\ i < Len(unmatched) - 1
    /\ LET a == unmatched[i + 1]
           b == unmatched[i + 2]
           both == <<unmatchedPos[i + 1], unmatchedPos[i + 2]>>
           combined == a \o <<" ">> \o b
           combined_result == analyze_ingredient(combined)
           combined_comma == a \o <<",", " ">> \o b
           comma_result == analyze_ingredient(combined_comma)
           original == a \o <<" ", "+", " ">> \o b
       IN  IF IsExact(combined_result)
           THEN /\ results' = Append(results,
                       Result(original, combined, "combined_exact",
                              combined_result, both))
                /\ i' = NextIndex(TRUE)
                /\ queries' = Append(queries, Query(combined, TRUE, "combine", both))
           ELSE /\ queries' = queries \o
                       << Query(combined, TRUE, "combine", both),
                          Query(combined_comma, TRUE, "combine", both) >>
                /\ IF IsExact(comma_result)
                   THEN /\ results' = Append(results,
                               Result(original, combined_comma,
                                      "combined_comma_exact", comma_result, both))
                        /\ i' = NextIndex(TRUE)
                   ELSE /\ i' = NextIndex(FALSE)
                        /\ UNCHANGED results
    /\ UNCHANGED <<ingredient_list, pc, k, unmatched, unmatchedPos>>
    /\ UNCHANGED svcVars /\ UNCHANGED queryVars /\ UNCHANGED parseVars /\ UNCHANGED rateVars

\* the combine loop's condition fails: on to "while i < len(unmatched)"
CombineEnd ==
    /\ pc = "combine"
    /\ ~(i < Len(unmatched) - 1)
    /\ pc' = "final"
    /\ UNCHANGED <<ingredient_list, k, results, unmatched, i, unmatchedPos, queries>>
    /\ UNCHANGED svcVars /\ UNCHANGED queryVars /\ UNCHANGED parseVars /\ UNCHANGED rateVars

\* one iteration of "while i < len(unmatched)"
FinalStep ==
    /\ pc = "final"
    /\ i < Len(unmatched)
    /\ LET u == unmatched[i + 1]
           p == <<unmatchedPos[i + 1]>>
           fuzzy_result == get_ingredient_data(u, FALSE)
       IN  /\ results' = Append(results,
                  IF fuzzy_result.ingredient_found
                  THEN Result(u, fuzzy_result.name, "final_fuzzy", fuzzy_result, p)
                  ELSE Result(u, None, "no_match", NoData, p))
           /\ queries' = Append(queries, Query(u, FALSE, "final", p))
    /\ i' = i + 1
    /\ UNCHANGED <<ingredient_list, pc, k, unmatched, unmatchedPos>>
    /\ UNCHANGED svcVars /\ UNCHANGED queryVars /\ UNCHANGED parseVars /\ UNCHANGED rateVars

\* "return results"
Return ==
    /\ pc = "final"
    /\ ~(i < Len(unmatched))
    /\ pc' = "done"
    /\ UNCHANGED <<ingredient_list, k, results, unmatched, i, unmatchedPos, queries>>
    /\ UNCHANGED svcVars /\ UNCHANGED queryVars /\ UNCHANGED parseVars /\ UNCHANGED rateVars

\* requests.get raises inside a query of the current iteration (timeout,
\* connection error): no frame between _make_request and the caller of
\* smart_analyze_list has a handler, so the call ends with the exception and
\* its locals are gone
TransportError ==
    /\ \/ pc = "phase1" /\ k <= Len(ingredient_list)
       \/ pc = "combine" /\ i < Len(unmatched) - 1
       \/ pc = "final" /\ i < Len(unmatched)
    /\ pc' = "raised"
    /\ k' = 1 /\ i' = 0
    /\ results' = <<>> /\ unmatched' = <<>> /\ unmatchedPos' = <<>>
    /\ UNCHANGED <<ingredient_list, queries>>
    /\ UNCHANGED svcVars /\ UNCHANGED queryVars /\ UNCHANGED parseVars /\ UNCHANGED rateVars

Next ==
    \/ Phase1Step
    \/ Phase1End
    \/ CombineStep
    \/ CombineEnd
    \/ FinalStep
    \/ Return
    \/ TransportError

Spec == Init /\ [][Next]_vars

---------------------------------------------------------------------------
(* EWGSkindeepAPI._make_request under a clock.  A thread makes calls of     *)
(* get_ingredient_data; a call sends the search request and, when a match   *)
(* was found, the request of the ingredient page, both through              *)
(* _make_request of the same client instance.                               *)

\* the list call's variables while only the limiter is followed
ListIdle ==
    /\ catalogue = {}
    /\ loose = {}
    /\ ingredient_list = <<>>
    /\ pc = "idle"
    /\ k = 1
    /\ results = <<>>
    /\ unmatched = <<>>
    /\ i = 0
    /\ unmatchedPos = <<>>
    /\ queries = <<>>

\* EWGSkindeepAPI.__init__: last_request_time = 0; time.time() is far above
\* rate_limit when the first request is made
ClientInit ==
    /\ now = RateLimit
    /\ last_request_time = [c \in {"ewg", "fresh"} |-> 0]
    /\ req = [t \in Threads |-> "search"]
    /\ tpc = [t \in Threads |-> "idle"]
    /\ inst = [t \in Threads |-> "ewg"]
    /\ elapsed = [t \in Threads |-> 0]
    /\ wake = [t \in Threads |-> 0]
    /\ sent = <<>>

\* one caller, IngredientAnalyzer with its one client (Analyser.py:659-660)
InitSequential ==
    ListIdle /\ ClientInit /\ QueryIdle /\ ParseIdle
    /\ callers = {1} /\ driver = "Analyser.py"

\* one caller, smart_analyze_list(ingredient_list, ewg) of test3.py
InitTest3 ==
    ListIdle /\ ClientInit /\ QueryIdle /\ ParseIdle
    /\ callers = {1} /\ driver = "test3.py"

\* two threads share one client
InitConcurrent ==
    ListIdle /\ ClientInit /\ QueryIdle /\ ParseIdle
    /\ callers = Threads /\ driver = "Analyser.py"

\* requests sent or about to be sent
Underway == Len(sent) + Cardinality({t \in callers : tpc[t] \in {"l58", "sleep", "l63"}})

\* the client instances a new call of get_ingredient_data can go through:
\* self.ewg_api / ewg everywhere, and in test3.py's smart_analyze the instance
\* that "EWGSkindeepAPI().get_ingredient_data(...)" constructs for its fuzzy
\* query, which follows a query made through ewg
ClientsFor(t) ==
    IF driver = "test3.py" /\ sent # <<>> /\ inst[t] = "ewg"
    THEN {"ewg", "fresh"}
    ELSE {"ewg"}

\* time passes
Tick ==
    /\ now < MaxTime
    /\ now' = now + 1
    /\ UNCHANGED <<last_request_time, callers, driver, req, tpc, inst, elapsed,
                   wake, sent>>
    /\ UNCHANGED listVars /\ UNCHANGED svcVars /\ UNCHANGED queryVars /\ UNCHANGED parseVars

\* get_ingredient_data is called: search_ingredient calls _make_request
BeginCall(t) ==
    /\ tpc[t] = "idle"
    /\ Underway < MaxRequests
    /\ \E c \in ClientsFor(t) :
        /\ inst' = [inst EXCEPT ![t] = c]
        /\ last_request_time' =
               IF c = "fresh" THEN [last_request_time EXCEPT !["fresh"] = 0]
               ELSE last_request_time
    /\ req' = [req EXCEPT ![t] = "search"]
    /\ tpc' = [tpc EXCEPT ![t] = "l58"]
    /\ UNCHANGED <<now, callers, driver, elapsed, wake, sent>>
    /\ UNCHANGED listVars /\ UNCHANGED svcVars /\ UNCHANGED queryVars /\ UNCHANGED parseVars

SleepFor_OneShort(e) == RateLimit - e - 1

\* the argument of time.sleep: self.rate_limit - elapsed
SleepFor(e) == RateLimit - e

\* lines 58-60: elapsed = time.time() - self.last_request_time, and the sleep
\* is entered when elapsed < self.rate_limit
ReadClock(t) ==
    /\ tpc[t] = "l58"
    /\ LET e == now - last_request_time[inst[t]]
       IN  /\ elapsed' = [elapsed EXCEPT ![t] = e]
           /\ IF e < RateLimit
              THEN /\ wake' = [wake EXCEPT ![t] = now + SleepFor(e)]
                   /\ tpc' = [tpc EXCEPT ![t] = "sleep"]
              ELSE /\ tpc' = [tpc EXCEPT ![t] = "l63"]
                   /\ UNCHANGED wake
    /\ UNCHANGED <<now, last_request_time, callers, driver, req, inst, sent>>
    /\ UNCHANGED listVars /\ UNCHANGED svcVars /\ UNCHANGED queryVars /\ UNCHANGED parseVars

\* time.sleep returns, not before the time asked for
Wake(t) ==
    /\ tpc[t] = "sleep"
    /\ now >= wake[t]
    /\ tpc' = [tpc EXCEPT ![t] = "l63"]
    /\ UNCHANGED <<now, last_request_time, callers, driver, req, inst, elapsed,
                   wake, sent>>
    /\ UNCHANGED listVars /\ UNCHANGED svcVars /\ UNCHANGED queryVars /\ UNCHANGED parseVars

\* line 63: requests.get sends the request
Send(t) ==
    /\ tpc[t] = "l63"
    /\ sent' = Append(sent, [thread |-> t, client |-> inst[t], kind |-> req[t],
                             start |-> now, end |-> -1])
    /\ tpc' = [tpc EXCEPT ![t] = "wait"]
    /\ UNCHANGED <<now, last_request_time, callers, driver, req, inst, elapsed, wake>>
    /\ UNCHANGED listVars /\ UNCHANGED svcVars /\ UNCHANGED queryVars /\ UNCHANGED parseVars

\* the index in sent of the request thread t has in flight
InFlight(t) == CHOOSE n \in 1..Len(sent) : sent[n].thread = t /\ sent[n].end = -1

\* line 63: requests.get returns the response
Respond(t) ==
    /\ tpc[t] = "wait"
    /\ sent' = [sent EXCEPT ![InFlight(t)].end = now]
    /\ tpc' = [tpc EXCEPT ![t] = "l64"]
    /\ UNCHANGED <<now, last_request_time, callers, driver, req, inst, elapsed, wake>>
    /\ UNCHANGED listVars /\ UNCHANGED svcVars /\ UNCHANGED queryVars /\ UNCHANGED parseVars

\* line 63: requests.get raises; line 64 is not reached and no caller up to
\* the top level handles the exception
Fail(t) ==
    /\ tpc[t] = "wait"
    /\ sent' = [sent EXCEPT ![InFlight(t)].end = now]
    /\ tpc' = [tpc EXCEPT ![t] = "raised"]
    /\ elapsed' = [elapsed EXCEPT ![t] = 0]
    /\ wake' = [wake EXCEPT ![t] = 0]
    /\ UNCHANGED <<now, last_request_time, callers, driver, req, inst>>
    /\ UNCHANGED listVars /\ UNCHANGED svcVars /\ UNCHANGED queryVars /\ UNCHANGED parseVars

\* line 64: self.last_request_time = time.time(), and _make_request returns
\* (its locals end with it)
WriteClock(t) ==
    /\ tpc[t] = "l64"
    /\ last_request_time' = [last_request_time EXCEPT ![inst[t]] = now]
    /\ tpc' = [tpc EXCEPT ![t] = IF req[t] = "search" THEN "mid" ELSE "idle"]
    /\ elapsed' = [elapsed EXCEPT ![t] = 0]
    /\ wake' = [wake EXCEPT ![t] = 0]
    /\ UNCHANGED <<now, callers, driver, req, inst, sent>>
    /\ UNCHANGED listVars /\ UNCHANGED svcVars /\ UNCHANGED queryVars /\ UNCHANGED parseVars

\* get_ingredient_data line 300: a match was found, get_ingredient_page calls
\* _make_request
PageRequest(t) ==
    /\ tpc[t] = "mid"
    /\ Underway < MaxRequests
    /\ req' = [req EXCEPT ![t] = "page"]
    /\ tpc' = [tpc EXCEPT ![t] = "l58"]
    /\ UNCHANGED <<now, last_request_time, callers, driver, inst, elapsed, wake, sent>>
    /\ UNCHANGED listVars /\ UNCHANGED svcVars /\ UNCHANGED queryVars /\ UNCHANGED parseVars

\* get_ingredient_data lines 272-286: no page or no match, the call returns
NoPage(t) ==
    /\ tpc[t] = "mid"
    /\ tpc' = [tpc EXCEPT ![t] = "idle"]
    /\ UNCHANGED <<now, last_request_time, callers, driver, req, inst, elapsed,
                   wake, sent>>
    /\ UNCHANGED listVars /\ UNCHANGED svcVars /\ UNCHANGED queryVars /\ UNCHANGED parseVars

NextRate ==
    \/ Tick
    \/ \E t \in callers : BeginCall(t)
    \/ \E t \in callers : ReadClock(t)
    \/ \E t \in callers : Wake(t)
    \/ \E t \in callers : Send(t)
    \/ \E t \in callers : Respond(t)
    \/ \E t \in callers : Fail(t)
    \/ \E t \in callers : WriteClock(t)
    \/ \E t \in callers : PageRequest(t)
    \/ \E t \in callers : NoPage(t)

SpecSequential == InitSequential /\ [][NextRate]_vars
SpecTest3      == InitTest3 /\ [][NextRate]_vars
SpecConcurrent == InitConcurrent /\ [][NextRate]_vars

---------------------------------------------------------------------------
(* Vocabulary of the claims about smart_analyze_list *)

Positions == 1..Len(ingredient_list)

Returned == pc = "done"

PosOf(r) == {r.pos[n] : n \in 1..Len(r.pos)}

\* the results derived from the token at input position p
ResultsOf(p) == {n \in 1..Len(results) : p \in PosOf(results[n])}

\* the direct (verbatim, exact-only) query of the token at p succeeds
DirectSucceeds(p) == IsExact(analyze_ingredient(ingredient_list[p]))

\* the split phase of the token at p succeeds: one of its fragments has an exact match
SplitSucceeds(p) ==
    LET words == SplitWords(ingredient_list[p])
    IN  Len(words) > 1 /\ \E n \in 1..Len(words) : IsExact(analyze_ingredient(words[n]))

FuzzyTypes == {"fuzzy", "final_fuzzy"}

\* C1: when the list call has returned, every token whose direct query
\* succeeds has a result of type exact, and no result of another matching
\* type (split_exact, combined_exact, combined_comma_exact, fuzzy) is derived
\* from it.
C1_PhasePriority ==
    Returned =>
        \A p \in Positions :
            DirectSucceeds(p) =>
                /\ \E n \in ResultsOf(p) :
                       /\ results[n].match_type = "exact"
                       /\ results[n].original = ingredient_list[p]
                /\ \A n \in ResultsOf(p) :
                       results[n].match_type \notin
                           {"split_exact", "combined_exact",
                            "combined_comma_exact"} \cup FuzzyTypes

\* a returned list of three tokens, the second of which matches directly while
\* its neighbours do not
C1_Witness ==
    /\ Returned
    /\ Len(ingredient_list) = 3
    /\ DirectSucceeds(2) /\ ~DirectSucceeds(1) /\ ~DirectSucceeds(3)
    /\ \E n \in ResultsOf(2) : results[n].match_type = "exact"

\* C2: when the list call has returned, two adjacent tokens that both fail the
\* direct and the split phase and whose space-joined concatenation has an
\* exact match are reported as one combined_exact result, and neither has a
\* fuzzy result.
C2_CombineBeforeFuzzy ==
    Returned =>
        \A p \in Positions :
            ( /\ p + 1 \in Positions
              /\ ~DirectSucceeds(p) /\ ~SplitSucceeds(p)
              /\ ~DirectSucceeds(p + 1) /\ ~SplitSucceeds(p + 1)
              /\ IsExact(analyze_ingredient(
                     ingredient_list[p] \o <<" ">> \o ingredient_list[p + 1])) )
            =>
            /\ \E n \in 1..Len(results) :
                   /\ results[n].match_type = "combined_exact"
                   /\ results[n].pos = <<p, p + 1>>
            /\ \A n \in ResultsOf(p) \cup ResultsOf(p + 1) :
                   results[n].match_type \notin FuzzyTypes

\* C3: when the list call has returned, a token that fails the direct phase
\* and has a fragment with an exact match has a split_exact result, and no
\* combination or fuzzy query was made with it.
C3_SplitExits ==
    Returned =>
        \A p \in Positions :
            (~DirectSucceeds(p) /\ SplitSucceeds(p)) =>
                /\ \E n \in ResultsOf(p) : results[n].match_type = "split_exact"
                /\ \A n \in 1..Len(queries) :
                       (queries[n].phase \in {"combine", "fuzzy", "final"})
                           => p \notin PosOf(queries[n])

\* every query that any phase can make with the token at p is answered with an
\* empty page: the token, its fragments, and its combinations with its
\* neighbours in the list
NoCandidateAnywhere(p) ==
    LET t == ingredient_list[p]
        words == SplitWords(t)
        pair(a, b) == /\ SearchPage(a \o <<" ">> \o b) = <<>>
                      /\ SearchPage(a \o <<",", " ">> \o b) = <<>>
    IN  /\ SearchPage(t) = <<>>
        /\ \A n \in 1..Len(words) : SearchPage(words[n]) = <<>>
        /\ \A q \in Positions :
               /\ (q = p + 1 => pair(t, ingredient_list[q]))
               /\ (q = p - 1 => pair(ingredient_list[q], t))

\* C4: when the list call has returned, a token for which no query of any
\* phase finds a candidate has exactly one result, of type no_match with
\* corrected and data null, and every token after it was analysed.
C4_NoMatchTerminal ==
    Returned =>
        \A p \in Positions :
            NoCandidateAnywhere(p) =>
                /\ Cardinality(ResultsOf(p)) = 1
                /\ \A n \in ResultsOf(p) :
                       /\ results[n].match_type = "no_match"
                       /\ results[n].corrected = None
                       /\ results[n].data.none
                /\ \A q \in Positions :
                       q > p => \E n \in 1..Len(queries) :
                                    /\ queries[n].phase = "direct"
                                    /\ queries[n].pos = <<q>>

\* the position belongs to a combined result
Consumed(p) ==
    \E n \in ResultsOf(p) :
        results[n].match_type \in {"combined_exact", "combined_comma_exact"}

\* C5: when the list call has returned, every token that failed the direct and
\* the split phase and is not part of a successful combination is the original
\* of exactly one fuzzy or no_match result.
C5_FuzzyCoversRest ==
    Returned =>
        \A p \in Positions :
            (~DirectSucceeds(p) /\ ~SplitSucceeds(p) /\ ~Consumed(p)) =>
                /\ Cardinality(ResultsOf(p)) = 1
                /\ \A n \in ResultsOf(p) :
                       /\ results[n].match_type \in FuzzyTypes \cup {"no_match"}
                       /\ results[n].original = ingredient_list[p]

\* C6: when the list call has returned, the results stand in the order of the
\* input positions of their (first) tokens.
C6_OrderPreserved ==
    Returned =>
        \A m, n \in 1..Len(results) :
            m < n => results[m].pos[1] <= results[n].pos[1]

\* C10: a transport failure of a request never ends smart_analyze_list with an
\* exception.
C10_NeverRaises == pc # "raised"

---------------------------------------------------------------------------
(* Claims about the limiter *)

\* C7: with one caller and one client, each request starts at least
\* rate_limit after the completion of the request before it.
C7_SequentialSpacing ==
    \A n \in 2..Len(sent) :
        /\ sent[n - 1].end # -1
        /\ sent[n].start - sent[n - 1].end >= RateLimit

\* three requests were sent, the first went out without a sleep and a later
\* one had to sleep out the whole interval
C7_Witness ==
    /\ Len(sent) = 3
    /\ sent[1].start = RateLimit
    /\ sent[2].start = sent[1].end + RateLimit
    /\ sent[3].end # -1

\* C8: in a run of test3.py's smart_analyze_list every request goes through
\* the client handed to the run, and each request starts at least rate_limit
\* after the completion of the request before it.
C8_OneLimiterPerRun ==
    /\ \A n \in 1..Len(sent) : sent[n].client = "ewg"
    /\ \A n \in 1..(Len(sent) - 1) :
           sent[n].end # -1 /\ sent[n].end + RateLimit <= sent[n + 1].start

\* C9: with several threads on one client, no two requests are sent less than
\* rate_limit apart.
C9_ConcurrentSpacing ==
    \A m, n \in 1..Len(sent) :
        m < n => sent[n].start - sent[m].start >= RateLimit


---------------------------------------------------------------------------
(* One call of get_ingredient_data, followed request by request, with the  *)
(* status codes of the two responses chosen by the service.                *)

\* the status codes the service answers a request with
Statuses == {200, 404, 500}

\* a call get_ingredient_data(term, exact_match_only): with exact_match_only
\* it is the call of analyze_ingredient, without it the fuzzy query of
\* smart_analyze
InitQuery ==
    /\ catalogue \in SUBSET CatalogueNames
    /\ loose \in SUBSET Vocabulary
    /\ request \in [term : Vocabulary, exact_match_only : BOOLEAN,
                    search_status : Statuses, page_status : Statuses]
    /\ response = [NoData EXCEPT !.none = FALSE]
    /\ qpc = "l270"
    /\ ingredient_list = <<>> /\ pc = "idle" /\ k = 1 /\ i = 0
    /\ results = <<>> /\ unmatched = <<>> /\ unmatchedPos = <<>>
    /\ queries = <<>>
    /\ ClientInit /\ ParseIdle
    /\ callers = {} /\ driver = "Analyser.py"

\* search_ingredient and, on status 200, find_matches and the assignments
\* up to the Levenshtein test
SearchIngredient ==
    /\ qpc = "l270"
    /\ LET base == [NoData EXCEPT !.none = FALSE, !.search_term = request.term]
           data == get_ingredient_data(request.term, request.exact_match_only)
       IN  IF request.search_status # 200
           THEN response' = base /\ qpc' = "return"
           ELSE /\ response' = data
                /\ qpc' = IF data.ingredient_found THEN "l300" ELSE "return"
    /\ UNCHANGED <<request>>
    /\ UNCHANGED listVars /\ UNCHANGED svcVars /\ UNCHANGED rateVars
    /\ UNCHANGED parseVars

\* get_ingredient_page(ingredient_url): on a status other than 200 the dict
\* is returned as it stands, else the scraped fields (not held here) are added
GetIngredientPage ==
    /\ qpc = "l300"
    /\ qpc' = "return"
    /\ UNCHANGED <<request, response>>
    /\ UNCHANGED listVars /\ UNCHANGED svcVars /\ UNCHANGED rateVars
    /\ UNCHANGED parseVars

\* back in the caller: analyze_ingredient sets match_type, smart_analyze
\* tests ingredient_found of its fuzzy query
QueryReturn ==
    /\ qpc = "return"
    /\ qpc' = "done"
    /\ response' = [response EXCEPT !.match_type =
           IF request.exact_match_only
           THEN (IF response.ingredient_found /\ response.exact_match
                 THEN "exact" ELSE "no_exact_match")
           ELSE (IF response.ingredient_found THEN "fuzzy" ELSE "no_match")]
    /\ UNCHANGED <<request>>
    /\ UNCHANGED listVars /\ UNCHANGED svcVars /\ UNCHANGED rateVars
    /\ UNCHANGED parseVars

NextQuery ==
    \/ SearchIngredient
    \/ GetIngredientPage
    \/ QueryReturn

SpecQuery == InitQuery /\ [][NextQuery]_vars

\* the call requested the ingredient page
PageRequested == response.url # None

\* C11: when the search request or the ingredient-page request of a query is
\* answered with a status other than 200, the query reports ingredient_found
\* false and the token is not reported as matched.
C11_NonSuccessIsNoResult ==
    (/\ qpc = "done"
     /\ \/ request.search_status # 200
        \/ PageRequested /\ request.page_status # 200)
    => /\ ~response.ingredient_found
       /\ response.match_type \notin {"exact", "fuzzy"}


---------------------------------------------------------------------------
(* Claims about the match types of smart_analyze_list *)

\* the service lists, for the token, a record with a link whose name is the
\* token up to letter case
ServiceHasEqualRecord(token) ==
    \E n \in 1..Len(SearchPage(token)) :
        /\ Lower(SearchPage(token)[n].name) = Lower(token)
        /\ ~Falsy(SearchPage(token)[n].url)

\* C12: analyze_ingredient reports match_type "exact" for a token exactly when
\* the service returns a record with a locator whose name equals the token
\* when both are lowercased; a difference in letter case only is still exact.
C12_ExactIsCaseInsensitive ==
    \A p \in 1..(k - 1) :
        (analyze_ingredient(ingredient_list[p]).match_type = "exact")
            <=> ServiceHasEqualRecord(ingredient_list[p])

\* the match types of the specification's result record
MatchTypes == {"exact", "split_exact", "combined_exact", "combined_comma_exact",
               "fuzzy", "no_match"}

\* C13: every result smart_analyze_list returns has a match_type among exact,
\* split_exact, combined_exact, combined_comma_exact, fuzzy and no_match.
C13_MatchTypeEnum ==
    Returned => \A n \in 1..Len(results) : results[n].match_type \in MatchTypes


---------------------------------------------------------------------------
(* parse_ingredients_from_ocr (test3.py): character classes and regex steps *)

UpperLetters == DOMAIN LowerMap
LowerLetters == {LowerMap[c] : c \in UpperLetters}
Digits == {"0","1","2","3","4","5","6","7","8","9"}
\* [a-zA-Z0-9]
Alnum == UpperLetters \cup LowerLetters \cup Digits
\* \w
WordChars == Alnum \cup {"_"}
\* \s
Space == {" ", "\t", "\n", "\r", "\f"}
\* [\n\r]
LineBreaks == {"\n", "\r"}

\* the first index from n on whose character is outside class (Len(s) + 1 when
\* there is none): the end of a greedy run of class
RECURSIVE RunEnd(_, _, _)
RunEnd(s, n, class) ==
    IF n > Len(s) \/ s[n] \notin class THEN n ELSE RunEnd(s, n + 1, class)

\* the first index of a trailing run of class (Len(s) + 1 when there is none)
RECURSIVE RunStart(_, _, _)
RunStart(s, n, class) ==
    IF n < 1 \/ s[n] \notin class THEN n + 1 ELSE RunStart(s, n - 1, class)

\* s[a:b] with 1-based inclusive a and exclusive b
Slice(s, a, b) == IF b <= a THEN <<>> ELSE SubSeq(s, a, b - 1)

\* str.strip()
Strip(s) ==
    LET a == RunEnd(s, 1, Space)
    IN  IF a > Len(s) THEN <<>>
        ELSE Slice(s, a, RunStart(s, Len(s), Space))

\* the text w stands in s at index n, letter case ignored (re.IGNORECASE)
MatchesAt(s, n, w) ==
    /\ n >= 1
    /\ n + Len(w) - 1 <= Len(s)
    /\ \A j \in 1..Len(w) : LowerChar(s[n + j - 1]) = w[j]

\* index of the leftmost occurrence of w in s, letter case ignored; 0 if none
FindIgnoreCase(s, w) ==
    IF \E n \in 1..Len(s) : MatchesAt(s, n, w)
    THEN CHOOSE n \in 1..Len(s) :
            /\ MatchesAt(s, n, w)
            /\ \A m \in 1..(n - 1) : ~MatchesAt(s, m, w)
    ELSE 0

\* the stop keywords of the lookahead
StopKeywords ==
    { <<"d","i","r","e","c","t","i","o","n","s">>,
      <<"u","s","e">>,
      <<"w","a","r","n","i","n","g">>,
      <<"c","a","u","t","i","o","n">>,
      <<"d","i","s","c","l","a","i","m","e","r">>,
      <<"m","a","d","e"," ","i","n">>,
      <<"f","o","r"," ","e","x","t","e","r","n","a","l"," ","u","s","e">>,
      <<"h","o","w"," ","t","o"," ","u","s","e">> }

\* (?=\b(?:directions|use|...)\b|\Z) holds at index n
LookaheadAt(s, n) ==
    \/ n = Len(s) + 1
    \/ \E w \in StopKeywords :
         /\ MatchesAt(s, n, w)
         /\ (n = 1 \/ s[n - 1] \notin WordChars)
         /\ (n + Len(w) > Len(s) \/ s[n + Len(w)] \notin WordChars)

\* the lazy group (.*?) that starts at index g: up to the first index where
\* the lookahead holds
RECURSIVE LazyGroupEnd(_, _)
LazyGroupEnd(s, n) ==
    IF LookaheadAt(s, n) THEN n ELSE LazyGroupEnd(s, n + 1)

\* [:\-;]? at index n: the index after it
OptionalPunct(s, n) ==
    IF n <= Len(s) /\ s[n] \in {":", "-", ";"} THEN n + 1 ELSE n

\* the three header patterns, in the order of ingredient_patterns: the text
\* of the header and whether \s* stands between it and the punctuation
HeaderPatterns ==
    << [header |-> <<"i","n","g","r","e","d","i","e","n","t","s">>, space_before_punct |-> TRUE],
       [header |-> <<"i","n","g","r","e","d","i","e","n","t">>, space_before_punct |-> FALSE],
       [header |-> <<"c","o","n","t","a","i","n","s">>, space_before_punct |-> FALSE] >>

\* re.search(pattern, ocr_text, re.IGNORECASE | re.DOTALL) for pattern number
\* p: whether it matches, and match.group(1)
HeaderSearch(s, p) ==
    LET pat == HeaderPatterns[p]
        at == FindIgnoreCase(s, pat.header)
        h == at + Len(pat.header)
        \* ingredient[s]? of the second pattern
        h2 == IF p = 2 /\ h <= Len(s) /\ LowerChar(s[h]) = "s" THEN h + 1 ELSE h
        a == IF pat.space_before_punct THEN RunEnd(s, h2, Space) ELSE h2
        g == RunEnd(s, OptionalPunct(s, a), Space)
    IN  IF at = 0 THEN [matched |-> FALSE, group |-> <<>>]
        ELSE [matched |-> TRUE, group |-> Slice(s, g, LazyGroupEnd(s, g))]

\* the loop over ingredient_patterns: None when no pattern matches, else
\* match.group(1).strip() of the first pattern that matches
RECURSIVE SectionFrom(_, _)
SectionFrom(s, p) ==
    IF p > Len(HeaderPatterns) THEN None
    ELSE IF HeaderSearch(s, p).matched THEN Strip(HeaderSearch(s, p).group)
    ELSE SectionFrom(s, p + 1)

\* "if not ingredients_text: ingredients_text = ocr_text"
ExtractedText(s) ==
    LET section == SectionFrom(s, 1)
    IN  IF section = None \/ section = <<>> THEN s ELSE section


\* re.sub(r"(\w+)\-\s*[\n\r]+\s*(\w+)", r"\1\2", s) from index n on.  A match
\* is a word run, "-", a whitespace run holding a line break, a word run;
\* matches do not overlap, so the "-" at index blocked, which follows the word
\* run the previous match ended with, cannot start one
RECURSIVE JoinBrokenFrom(_, _, _, _)
JoinBrokenFrom(s, n, blocked, out) ==
    IF n > Len(s) THEN out
    ELSE LET m == RunEnd(s, n + 1, Space)
             e == RunEnd(s, m, WordChars)
         IN  IF /\ s[n] = "-"
                /\ n > 1 /\ s[n - 1] \in WordChars
                /\ n # blocked
                /\ \E j \in (n + 1)..(m - 1) : s[j] \in LineBreaks
                /\ m <= Len(s) /\ s[m] \in WordChars
             THEN JoinBrokenFrom(s, e, e, out \o Slice(s, m, e))
             ELSE JoinBrokenFrom(s, n + 1, blocked, Append(out, s[n]))

JoinBroken(s) == JoinBrokenFrom(s, 1, 0, <<>>)

\* re.sub(r"(\w+)\s+\-\s+(\w+)", r"\1-\2", s) from index n on.  A match is a
\* word run, whitespace, "-", whitespace, a word run; the whitespace at index
\* blocked follows the word run the previous match ended with
RECURSIVE JoinSpacedFrom(_, _, _, _)
JoinSpacedFrom(s, n, blocked, out) ==
    IF n > Len(s) THEN out
    ELSE LET m == RunEnd(s, n, Space)
             q == RunEnd(s, m + 1, Space)
             e == RunEnd(s, q, WordChars)
         IN  IF /\ s[n] \in Space
                /\ n > 1 /\ s[n - 1] \in WordChars
                /\ n # blocked
                /\ m <= Len(s) /\ s[m] = "-"
                /\ q > m + 1
                /\ q <= Len(s) /\ s[q] \in WordChars
             THEN JoinSpacedFrom(s, e, e, out \o <<"-">> \o Slice(s, q, e))
             ELSE JoinSpacedFrom(s, n + 1, blocked, Append(out, s[n]))

JoinSpaced(s) == JoinSpacedFrom(s, 1, 0, <<>>)

\* re.sub(r"[class]+", " ", s): every run of class becomes one space
RECURSIVE RunsToSpaceFrom(_, _, _, _)
RunsToSpaceFrom(s, n, class, out) ==
    IF n > Len(s) THEN out
    ELSE IF s[n] \in class
         THEN RunsToSpaceFrom(s, RunEnd(s, n, class), class, Append(out, " "))
         ELSE RunsToSpaceFrom(s, n + 1, class, Append(out, s[n]))

RunsToSpace(s, class) == RunsToSpaceFrom(s, 1, class, <<>>)

\* re.sub(r"[;:]", ",", s)
SeparatorsToComma(s) ==
    [n \in 1..Len(s) |-> IF s[n] \in {";", ":"} THEN "," ELSE s[n]]

\* re.sub(r"\(\s+", "(", s)
RECURSIVE OpenParenFrom(_, _, _)
OpenParenFrom(s, n, out) ==
    IF n > Len(s) THEN out
    ELSE IF s[n] = "("
         THEN OpenParenFrom(s, RunEnd(s, n + 1, Space), Append(out, "("))
         ELSE OpenParenFrom(s, n + 1, Append(out, s[n]))

\* re.sub(r"\s+\)", ")", s)
RECURSIVE CloseParenFrom(_, _, _)
CloseParenFrom(s, n, out) ==
    IF n > Len(s) THEN out
    ELSE LET m == RunEnd(s, n, Space)
         IN  IF s[n] \in Space /\ m <= Len(s) /\ s[m] = ")"
             THEN CloseParenFrom(s, m + 1, Append(out, ")"))
             ELSE IF s[n] \in Space
             THEN CloseParenFrom(s, m, out \o Slice(s, n, m))
             ELSE CloseParenFrom(s, n + 1, Append(out, s[n]))

\* the seven substitutions applied to ingredients_text, in the code's order
NormalizeText(s) ==
    LET s1 == JoinBroken(s)
        s2 == JoinSpaced(s1)
        s3 == RunsToSpace(s2, LineBreaks)
        s4 == RunsToSpace(s3, Space)
        s5 == SeparatorsToComma(s4)
        s6 == OpenParenFrom(s5, 1, <<>>)
    IN  CloseParenFrom(s6, 1, <<>>)


\* str.split(",") from index n on: done are the pieces closed so far, cur the
\* piece being read
RECURSIVE SplitCommaFrom(_, _, _, _)
SplitCommaFrom(s, n, done, cur) ==
    IF n > Len(s) THEN Append(done, cur)
    ELSE IF s[n] = ","
         THEN SplitCommaFrom(s, n + 1, Append(done, cur), <<>>)
         ELSE SplitCommaFrom(s, n + 1, done, Append(cur, s[n]))

\* [f(x) for x in seq]
RECURSIVE MapStrip(_)
MapStrip(seq) ==
    IF seq = <<>> THEN <<>> ELSE <<Strip(Head(seq))>> \o MapStrip(Tail(seq))

\* comma_split
CommaSplit(s) == MapStrip(SplitCommaFrom(s, 1, <<>>, <<>>))

\* common_abbrev
CommonAbbrev ==
    << <<"v","i","t",".">>,
       <<"v","a","r",".">>,
       <<"s","p","p",".">>,
       <<"s","p",".">>,
       <<"s","u","b","s","p",".">>,
       <<"v","o","l",".">>,
       <<"n","o",".">>,
       <<"d","r",".">>,
       <<"s","t",".">> >>

\* the substitutions of the loop over common_abbrev: the "." that ends an
\* occurrence of an abbreviation (letter case ignored) becomes "@"
ProtectAbbrev(item) ==
    [n \in 1..Len(item) |->
        IF /\ item[n] = "."
           /\ \E a \in 1..Len(CommonAbbrev) :
                 MatchesAt(item, n - Len(CommonAbbrev[a]) + 1, CommonAbbrev[a])
        THEN "@" ELSE item[n]]

\* parts: re.split(r"(\.\s+)(?=[A-Z])", s) from index n on, each piece but the
\* last with "." appended
RECURSIVE PeriodPartsFrom(_, _, _, _)
PeriodPartsFrom(s, n, done, cur) ==
    IF n > Len(s) THEN Append(done, cur)
    ELSE LET m == RunEnd(s, n + 1, Space)
         IN  IF /\ s[n] = "."
                /\ m > n + 1
                /\ m <= Len(s) /\ s[m] \in UpperLetters
             THEN PeriodPartsFrom(s, m, Append(done, Append(cur, ".")), <<>>)
             ELSE PeriodPartsFrom(s, n + 1, done, Append(cur, s[n]))

\* part.replace("@", ".")
RestorePeriods(part) ==
    [n \in 1..Len(part) |-> IF part[n] = "@" THEN "." ELSE part[n]]

\* s.count(c) of the first idx characters
CountIn(s, idx, c) == Cardinality({n \in 1..idx : s[n] = c})

GuardPrefixes == { <<"d","i">>, <<"t","r","i">>, <<"t","e","t","r","a">>, <<"p","o","l","y">>, <<"m","o","n","o">>, <<"i","s","o">> }
GuardTerms == { <<"v","i","t","a","m","i","n">>, <<"e","x","t","r","a","c","t">>, <<"o","i","l">> }

\* the tests of the loop over matches for the split index idx (the number of
\* characters before the upper-case letter)
ValidSplit(part, idx) ==
    LET prefix_context == Lower(Slice(part, Max(1, idx - 5), idx + 1))
        context == Lower(Slice(part, Max(1, idx - 9),
                               (IF idx + 10 < Len(part) THEN idx + 10
                                ELSE Len(part)) + 1))
    IN  /\ ~(CountIn(part, idx, "(") > CountIn(part, idx, ")"))
        /\ \A w \in GuardPrefixes : ~Contains(prefix_context, w)
        /\ \A w \in GuardTerms : ~Contains(context, w)

\* valid_splits: re.finditer(r"([a-z])([A-Z][a-z])", part) from index n on,
\* matches not overlapping, filtered by the tests
RECURSIVE ValidSplitsFrom(_, _, _)
ValidSplitsFrom(part, n, out) ==
    IF n + 2 > Len(part) THEN out
    ELSE IF /\ part[n] \in LowerLetters
            /\ part[n + 1] \in UpperLetters
            /\ part[n + 2] \in LowerLetters
         THEN ValidSplitsFrom(part, n + 3,
                  IF ValidSplit(part, n) THEN Append(out, n) ELSE out)
         ELSE ValidSplitsFrom(part, n + 1, out)

\* the loop over valid_splits: start_idx is the number of characters already
\* cut off
RECURSIVE CutAt(_, _, _, _)
CutAt(part, splits, start_idx, out) ==
    IF splits = <<>>
    THEN IF start_idx < Len(part)
         THEN Append(out, Strip(Slice(part, start_idx + 1, Len(part) + 1)))
         ELSE out
    ELSE LET idx == Head(splits)
             subpart == Strip(Slice(part, start_idx + 1, idx + 1))
         IN  CutAt(part, Tail(splits), idx,
                   IF subpart # <<>> THEN Append(out, subpart) ELSE out)

\* subparts of one part
Subparts(p) ==
    LET part == RestorePeriods(p)
        valid_splits == ValidSplitsFrom(part, 1, <<>>)
    IN  IF valid_splits # <<>> THEN CutAt(part, valid_splits, 0, <<>>)
        ELSE <<part>>

RECURSIVE SubpartsOfAll(_)
SubpartsOfAll(parts) ==
    IF parts = <<>> THEN <<>>
    ELSE Subparts(Head(parts)) \o SubpartsOfAll(Tail(parts))

\* what one item of comma_split adds to processed_items
ProcessItem(item) ==
    IF item = <<>> \/ Len(item) <= 2 THEN <<>>
    ELSE SubpartsOfAll(PeriodPartsFrom(ProtectAbbrev(item), 1, <<>>, <<>>))

\* processed_items after the loop over comma_split
RECURSIVE ProcessItems(_)
ProcessItems(items) ==
    IF items = <<>> THEN <<>>
    ELSE ProcessItem(Head(items)) \o ProcessItems(Tail(items))

\* re.sub(r"^[^a-zA-Z0-9(]+|[^a-zA-Z0-9)]+$", "", s): the leading run of
\* characters other than letters, digits and "(" goes, then the trailing run
\* of characters other than letters, digits and ")"
TrimEnds(s) ==
    LET a == IF s # <<>> /\ s[1] \notin Alnum \cup {"("}
             THEN CHOOSE n \in 1..(Len(s) + 1) :
                     /\ \A j \in 1..(n - 1) : s[j] \notin Alnum \cup {"("}
                     /\ (n > Len(s) \/ s[n] \in Alnum \cup {"("})
             ELSE 1
        rest == Slice(s, a, Len(s) + 1)
        b == IF rest # <<>> /\ rest[Len(rest)] \notin Alnum \cup {")"}
             THEN CHOOSE n \in 0..Len(rest) :
                     /\ \A j \in (n + 1)..Len(rest) : rest[j] \notin Alnum \cup {")"}
                     /\ (n = 0 \/ rest[n] \in Alnum \cup {")"})
             ELSE Len(rest)
    IN  Slice(rest, 1, b + 1)

\* re.sub(r"([A-Za-z])X([0-9])", r"\1-\2", s) for the letter X, from index n
\* on: matches do not overlap
RECURSIVE LetterToHyphenFrom(_, _, _, _)
LetterToHyphenFrom(s, x, n, out) ==
    IF n > Len(s) THEN out
    ELSE IF /\ n + 2 <= Len(s)
            /\ s[n] \in UpperLetters \cup LowerLetters
            /\ s[n + 1] = x
            /\ s[n + 2] \in Digits
         THEN LetterToHyphenFrom(s, x, n + 3, out \o <<s[n], "-", s[n + 2]>>)
         ELSE LetterToHyphenFrom(s, x, n + 1, Append(out, s[n]))

\* the body of the loop over processed_items, up to the length test
CleanItem(ing) ==
    LET a == TrimEnds(Strip(ing))
        b == RunsToSpace(a, Space)
        c == LetterToHyphenFrom(b, "l", 1, <<>>)
    IN  LetterToHyphenFrom(c, "O", 1, <<>>)

\* final_ingredients after the loop over processed_items
RECURSIVE CleanItems(_)
CleanItems(items) ==
    IF items = <<>> THEN <<>>
    ELSE (IF Len(CleanItem(Head(items))) > 1 THEN <<CleanItem(Head(items))>>
          ELSE <<>>) \o CleanItems(Tail(items))

\* parse_ingredients_from_ocr(ocr_text)
parse_ingredients_from_ocr(text) ==
    IF text = <<>> THEN <<>>
    ELSE CleanItems(ProcessItems(CommaSplit(NormalizeText(ExtractedText(text)))))



---------------------------------------------------------------------------
(* parse_ingredients_from_ocr, stage by stage *)

\* the pieces the texts handed to parse_ingredients_from_ocr are made of
Fragments ==
    { <<"A","q","u","a">>,
      <<"a","q","u","a">>,
      <<"G","l","y","c","e","r","i","n">>,
      <<"P","a","r","f","u","m">>,
      <<","," ">>,
      <<";"," ">>,
      <<" ","|"," ">>,
      <<"B","e","e"," ","-"," ">>,
      <<"C","l","2">>,
      <<"1","0","0">>,
      <<"a","n","d">>,
      <<"I","n","g","r","e","d","i","e","n","t","s",":"," ">>,
      <<"u","s","e"," ">>,
      <<"A","b","C","d","E","f">>,
      <<"-","\n">>,
      <<"."," ">>,
      <<"(">>,
      <<")">>,
      <<"@">>,
      <<"B","e","s","t">>,
      <<"V","i","t">>,
      <<"P","o","l","y","s","o","r","b","a","t","e","2","0">> }

\* most pieces of one text
MaxFragments == 3

RECURSIVE Flatten(_)
Flatten(seq) == IF seq = <<>> THEN <<>> ELSE Head(seq) \o Flatten(Tail(seq))

\* the texts of at most MaxFragments pieces
OcrTexts ==
    {Flatten(f) : f \in UNION {[1..n -> Fragments] : n \in 0..MaxFragments}}

InitParse ==
    /\ ocr_text \in OcrTexts
    /\ ppc = "l195"
    /\ ingredients_text = None
    /\ processed_items = <<>>
    /\ final_ingredients = <<>>
    /\ ListIdle /\ ClientInit /\ QueryIdle
    /\ callers = {} /\ driver = "test3.py"

\* "if not ocr_text: return []"
ReturnEmpty ==
    /\ ppc = "l195"
    /\ ocr_text = <<>>
    /\ ppc' = "done"
    /\ UNCHANGED <<ocr_text, ingredients_text, processed_items, final_ingredients>>
    /\ UNCHANGED listVars /\ UNCHANGED svcVars /\ UNCHANGED rateVars
    /\ UNCHANGED queryVars

\* the loop over ingredient_patterns and the fall back to the whole text
ExtractSection ==
    /\ ppc = "l195"
    /\ ocr_text # <<>>
    /\ ingredients_text' = ExtractedText(ocr_text)
    /\ ppc' = "l214"
    /\ UNCHANGED <<ocr_text, processed_items, final_ingredients>>
    /\ UNCHANGED listVars /\ UNCHANGED svcVars /\ UNCHANGED rateVars
    /\ UNCHANGED queryVars

\* the seven re.sub calls on ingredients_text
Normalize ==
    /\ ppc = "l214"
    /\ ingredients_text' = NormalizeText(ingredients_text)
    /\ ppc' = "l222"
    /\ UNCHANGED <<ocr_text, processed_items, final_ingredients>>
    /\ UNCHANGED listVars /\ UNCHANGED svcVars /\ UNCHANGED rateVars
    /\ UNCHANGED queryVars

\* comma_split and the loop that fills processed_items
SplitItems ==
    /\ ppc = "l222"
    /\ processed_items' = ProcessItems(CommaSplit(ingredients_text))
    /\ ppc' = "l291"
    /\ UNCHANGED <<ocr_text, ingredients_text, final_ingredients>>
    /\ UNCHANGED listVars /\ UNCHANGED svcVars /\ UNCHANGED rateVars
    /\ UNCHANGED queryVars

\* the loop that fills final_ingredients, and "return final_ingredients"
CleanAndReturn ==
    /\ ppc = "l291"
    /\ final_ingredients' = CleanItems(processed_items)
    /\ ppc' = "done"
    /\ UNCHANGED <<ocr_text, ingredients_text, processed_items>>
    /\ UNCHANGED listVars /\ UNCHANGED svcVars /\ UNCHANGED rateVars
    /\ UNCHANGED queryVars

NextParse ==
    \/ ReturnEmpty
    \/ ExtractSection
    \/ Normalize
    \/ SplitItems
    \/ CleanAndReturn

SpecParse == InitParse /\ [][NextParse]_vars

\* parse_ingredients_from_ocr has returned final_ingredients
Parsed == ppc = "done"

\* C14: normalizing a text that is already normalized yields the same text.
C14_NormalizeIdempotent ==
    ppc \in {"l222", "l291", "done"} /\ ingredients_text # None
        => NormalizeText(ingredients_text) = ingredients_text



\* the entries of seq whose lowercased text no earlier entry has
RECURSIVE KeepFirst(_, _)
KeepFirst(seq, seen) ==
    IF seq = <<>> THEN <<>>
    ELSE IF Lower(Head(seq)) \in seen THEN KeepFirst(Tail(seq), seen)
    ELSE <<Head(seq)>> \o KeepFirst(Tail(seq), seen \cup {Lower(Head(seq))})

\* C15: the returned list has no two entries that are equal when lowercased,
\* and the entries kept are the first occurrences, in their casing and order.
C15_Deduplicated ==
    Parsed =>
        /\ \A a, b \in 1..Len(final_ingredients) :
               a < b => Lower(final_ingredients[a]) # Lower(final_ingredients[b])
        /\ final_ingredients = KeepFirst(CleanItems(processed_items), {})

\* the words of the non-ingredient filter list, and the beginnings it names
FilterWords == { <<"a","n","d">>, <<"c","o","n","t","a","i","n","s">>, <<"i","n","g","r","e","d","i","e","n","t","s">>, <<"w","a","r","n","i","n","g">>, <<"w","a","r","n","i","n","g","s">> }
FilterBeginnings == { <<"m","a","y"," ","c","o","n","t","a","i","n">>, <<"c","a","u","t","i","o","n">>, <<"d","i","r","e","c","t","i","o","n">> }

\* made of digits and punctuation only
NoLetters(t) == \A n \in 1..Len(t) : t[n] \notin UpperLetters \cup LowerLetters

\* C16: every returned token has at least 2 characters, is not made only of
\* digits and punctuation, and is not a word of the non-ingredient filter list.
C16_TokenInvariant ==
    Parsed =>
        \A n \in 1..Len(final_ingredients) :
            LET t == final_ingredients[n]
            IN  /\ Len(t) >= 2
                /\ ~NoLetters(t)
                /\ Lower(t) \notin FilterWords
                /\ \A w \in FilterBeginnings : ~MatchesAt(t, 1, w)

\* the characters of t from index a on are, in order, among those of s from
\* index b on
RECURSIVE IsSubsequenceFrom(_, _, _, _)
IsSubsequenceFrom(t, a, s, b) ==
    IF a > Len(t) THEN TRUE
    ELSE IF b > Len(s) THEN FALSE
    ELSE IF t[a] = s[b] THEN IsSubsequenceFrom(t, a + 1, s, b + 1)
    ELSE IsSubsequenceFrom(t, a, s, b + 1)

\* C17: the characters of every returned token form, in order, a subsequence
\* of the characters of the span the tokens were cut from.
C17_NoInventedCharacters ==
    Parsed /\ ocr_text # <<>> =>
        \A n \in 1..Len(final_ingredients) :
            IsSubsequenceFrom(final_ingredients[n], 1, ingredients_text, 1)

\* the header patterns that match the text
MatchingPatterns(s) == {p \in 1..Len(HeaderPatterns) : HeaderSearch(s, p).matched}

\* the span by the rule "first pattern that matches wins, its group is the
\* span; the whole text only when no pattern matches"
SpanByFirstMatch(s) ==
    IF MatchingPatterns(s) = {} THEN s
    ELSE HeaderSearch(s, CHOOSE p \in MatchingPatterns(s) :
                            \A q \in MatchingPatterns(s) : p <= q).group

\* C18: the first header pattern that matches decides the span, which is its
\* captured group (compared without surrounding whitespace), also when the
\* group is empty; the whole text is the span only when no pattern matches.
C18_FirstPatternDecidesSpan ==
    ppc = "l214" =>
        Strip(ingredients_text) = Strip(SpanByFirstMatch(ocr_text))

\* the parts the seam search runs on, for a normalized text
RECURSIVE PartsOfItems(_)
PartsOfItems(items) ==
    IF items = <<>> THEN <<>>
    ELSE (IF Len(Head(items)) <= 2 THEN <<>>
          ELSE LET parts == PeriodPartsFrom(ProtectAbbrev(Head(items)), 1, <<>>, <<>>)
               IN  [n \in 1..Len(parts) |-> RestorePeriods(parts[n])])
         \o PartsOfItems(Tail(items))

\* a lowercase letter, an uppercase letter and a lowercase letter stand at
\* n, n + 1, n + 2, outside parentheses and with no guard prefix or term near
FreeSeam(part, n) ==
    /\ n + 2 <= Len(part)
    /\ part[n] \in LowerLetters
    /\ part[n + 1] \in UpperLetters
    /\ part[n + 2] \in LowerLetters
    /\ ValidSplit(part, n)

\* the part is cut between n and n + 1
CutBetween(part, n) ==
    \E j \in 1..Len(ValidSplitsFrom(part, 1, <<>>)) :
        ValidSplitsFrom(part, 1, <<>>)[j] = n

AquaGlycerinParfum == <<"A","q","u","a","G","l","y","c","e","r","i","n","P","a","r","f","u","m">>

\* C19: the text "AquaGlycerinParfum" gives the tokens Aqua, Glycerin and
\* Parfum, and every seam outside parentheses with no guard prefix or guard
\* term near it becomes a token boundary.
C19_FusedTokensSeparated ==
    Parsed /\ ocr_text # <<>> =>
        /\ ocr_text = AquaGlycerinParfum =>
               final_ingredients = << <<"A","q","u","a">>, <<"G","l","y","c","e","r","i","n">>, <<"P","a","r","f","u","m">> >>
        /\ LET parts == PartsOfItems(CommaSplit(ingredients_text))
           IN  \A m \in 1..Len(parts) : \A n \in 1..Len(parts[m]) :
                   FreeSeam(parts[m], n) => CutBetween(parts[m], n)

\* every run of ";", ":" and "|" replaced by one ","
RECURSIVE SeparatorRunsToComma(_, _, _)
SeparatorRunsToComma(s, n, out) ==
    IF n > Len(s) THEN out
    ELSE IF s[n] \in {";", ":", "|"}
         THEN SeparatorRunsToComma(s, RunEnd(s, n, {";", ":", "|"}), Append(out, ","))
         ELSE SeparatorRunsToComma(s, n + 1, Append(out, s[n]))

\* C20: in the span, a run of ";", ":" or "|" acts as a ",": replacing every
\* such run by one comma does not change the returned token list.
C20_SeparatorEquivalence ==
    Parsed /\ ocr_text # <<>> =>
        final_ingredients =
            CleanItems(ProcessItems(CommaSplit(NormalizeText(
                SeparatorRunsToComma(ExtractedText(ocr_text), 1, <<>>)))))



---------------------------------------------------------------------------
(* IngredientAnalyzer.smart_analyze on one token *)

the_gum == <<"t","h","e"," ","g","u","m">>
gum_slash_oil == <<"g","u","m","/","o","i","l">>

\* the tokens smart_analyze is called with
SmartTokens == Vocabulary \cup {the_gum, gum_slash_oil}

\* a call smart_analyze(ingredient): the token is held as a list of one
InitSmart ==
    /\ catalogue \in SUBSET CatalogueNames
    /\ loose \in SUBSET SmartTokens
    /\ ingredient_list \in {<<t>> : t \in SmartTokens}
    /\ pc = "smart"
    /\ k = 1
    /\ results = <<>>
    /\ unmatched = <<>>
    /\ i = 0
    /\ unmatchedPos = <<>>
    /\ queries = <<>>
    /\ RateIdle
    /\ QueryIdle
    /\ ParseIdle

\* smart_analyze(ingredient) runs and returns its result
SmartAnalyze ==
    /\ pc = "smart"
    /\ LET result == smart_analyze(ingredient_list[1], 1)
       IN  /\ results' = <<result>>
           /\ queries' = SmartQueries(ingredient_list[1], 1, result)
    /\ pc' = "done"
    /\ UNCHANGED <<ingredient_list, k, unmatched, i, unmatchedPos>>
    /\ UNCHANGED svcVars /\ UNCHANGED queryVars /\ UNCHANGED parseVars
    /\ UNCHANGED rateVars

NextSmart == SmartAnalyze

SpecSmart == InitSmart /\ [][NextSmart]_vars

\* the token split on whitespace, "/" and "-", from index n on
RECURSIVE FragmentsFrom(_, _, _, _)
FragmentsFrom(s, n, done, cur) ==
    IF n > Len(s) THEN Append(done, cur)
    ELSE IF s[n] \in Space \cup {"/", "-"}
         THEN FragmentsFrom(s, n + 1, Append(done, cur), <<>>)
         ELSE FragmentsFrom(s, n + 1, done, Append(cur, s[n]))

\* the fragments that remain: longer than 2 and not and/with/plus/the
RemainingFragments(token) ==
    SelectSeq(FragmentsFrom(token, 1, <<>>, <<>>),
              LAMBDA w : Len(w) > 2 /\ Lower(w) \notin StopWords)

\* C21: when the direct query fails, every remaining fragment of the token is
\* queried on its own, also when only one remains, and the result is the
\* split_exact result of the first fragment with an exact match, original and
\* corrected being that fragment.
C21_SplitPhase ==
    (pc = "done" /\ ~DirectSucceeds(1)) =>
        LET frags == RemainingFragments(ingredient_list[1])
            hits == SelectSeq(frags, LAMBDA w : IsExact(analyze_ingredient(w)))
        IN  /\ \A n \in 1..Len(frags) :
                   \E q \in 1..Len(queries) :
                       queries[q].term = frags[n] /\ queries[q].exact_only
            /\ hits # <<>> =>
                   /\ results[1].match_type = "split_exact"
                   /\ results[1].original = hits[1]
                   /\ results[1].corrected = hits[1]



---------------------------------------------------------------------------
(* Claims about the combine scan and the results of smart_analyze_list *)

\* the queries an iteration has added to the history
NewQueries == SubSeq(queries', Len(queries) + 1, Len(queries'))

\* C22: in an iteration of the combine scan at index i the query
\* u[i] + " " + u[i+1] is tried first and u[i] + ", " + u[i+1] only if the
\* first is not an exact match; on success one combined_exact or
\* combined_comma_exact result is appended and i advances by 2, on failure of
\* both nothing is appended and i advances by 1.
C22_CombineScan ==
    [][ (pc = "combine" /\ pc' = "combine" /\ queries' # queries) =>
        LET a == unmatched[i + 1]
            b == unmatched[i + 2]
            spaced == a \o <<" ">> \o b
            comma == a \o <<",", " ">> \o b
        IN  /\ NewQueries[1].term = spaced
            /\ IF IsExact(analyze_ingredient(spaced))
               THEN /\ Len(NewQueries) = 1
                    /\ Len(results') = Len(results) + 1
                    /\ results'[Len(results')].match_type = "combined_exact"
                    /\ i' = i + 2
               ELSE /\ Len(NewQueries) = 2
                    /\ NewQueries[2].term = comma
                    /\ IF IsExact(analyze_ingredient(comma))
                       THEN /\ Len(results') = Len(results) + 1
                            /\ results'[Len(results')].match_type =
                                   "combined_comma_exact"
                            /\ i' = i + 2
                       ELSE /\ results' = results
                            /\ i' = i + 1
      ]_vars

\* a returned scan over three unmatched tokens in which the first pair failed
\* both queries and the second pair matched with the comma
C22_Witness ==
    /\ Returned
    /\ Len(unmatched) = 3
    /\ \E n \in 1..Len(results) :
           /\ results[n].match_type = "combined_comma_exact"
           /\ results[n].pos = <<unmatchedPos[2], unmatchedPos[3]>>


\* C23: every combined result is built from two tokens that stand at
\* consecutive positions of the input list, in that order.
C23_CombinesNeighboursOnly ==
    Returned =>
        \A n \in 1..Len(results) :
            results[n].match_type \in {"combined_exact", "combined_comma_exact"}
                => /\ Len(results[n].pos) = 2
                   /\ results[n].pos[2] = results[n].pos[1] + 1



---------------------------------------------------------------------------
(* Claims about the segmentation of an item *)

\* a lowercase letter, an uppercase letter and a lowercase letter stand at
\* idx, idx + 1, idx + 2: idx characters precede the uppercase letter
SeamAt(part, idx) ==
    /\ idx + 2 <= Len(part)
    /\ part[idx] \in LowerLetters
    /\ part[idx + 1] \in UpperLetters
    /\ part[idx + 2] \in LowerLetters

\* (i) part[:idx] has more "(" than ")"
InsideParenthesis(part, idx) ==
    Cardinality({n \in 1..idx : part[n] = "("})
        > Cardinality({n \in 1..idx : part[n] = ")"})

\* (ii) the 6 characters before idx, lowercased, hold a multiplying prefix
AfterMultiplyingPrefix(part, idx) ==
    \E w \in { <<"d","i">>, <<"t","r","i">>, <<"t","e","t","r","a">>, <<"p","o","l","y">>, <<"m","o","n","o">>, <<"i","s","o">> } :
        Contains(Lower(Slice(part, Max(1, idx - 5), idx + 1)), w)

\* (iii) the 10 characters on either side of idx, lowercased, hold vitamin,
\* extract or oil
NearDomainTerm(part, idx) ==
    \E w \in { <<"v","i","t","a","m","i","n">>, <<"e","x","t","r","a","c","t">>, <<"o","i","l">> } :
        Contains(Lower(Slice(part, Max(1, idx - 9),
                             (IF idx + 10 < Len(part) THEN idx + 10
                              ELSE Len(part)) + 1)), w)

\* s without its whitespace
WithoutSpace(s) == SelectSeq(s, LAMBDA c : c \notin Space)

Polysorbate20 == <<"P","o","l","y","s","o","r","b","a","t","e","2","0">>

\* C24: a seam position of a part is accepted as a split point exactly when
\* it is not inside an open parenthesis, not after a multiplying prefix and
\* not near a domain term; the pieces of a part, put together, are the part
\* up to whitespace; "Polysorbate20" stays one token.
C24_FusionGuards ==
    Parsed /\ ocr_text # <<>> =>
        /\ LET parts == PartsOfItems(CommaSplit(ingredients_text))
           IN  \A m \in 1..Len(parts) :
                   /\ \A idx \in 1..Len(parts[m]) :
                          SeamAt(parts[m], idx) =>
                              (CutBetween(parts[m], idx) <=>
                                  /\ ~InsideParenthesis(parts[m], idx)
                                  /\ ~AfterMultiplyingPrefix(parts[m], idx)
                                  /\ ~NearDomainTerm(parts[m], idx))
                   /\ WithoutSpace(Flatten(Subparts(parts[m])))
                          = WithoutSpace(parts[m])
        /\ ocr_text = Polysorbate20 => final_ingredients = <<Polysorbate20>>

\* the number of characters c in the strings of seq
RECURSIVE CountAll(_, _)
CountAll(seq, c) ==
    IF seq = <<>> THEN 0
    ELSE Cardinality({n \in 1..Len(Head(seq)) : Head(seq)[n] = c})
         + CountAll(Tail(seq), c)

\* the items of comma_split that the loop does not skip
KeptItems == SelectSeq(CommaSplit(ingredients_text), LAMBDA item : Len(item) > 2)

\* C25: replacing the periods of the listed abbreviations by the placeholder
\* and restoring them changes no character of an item; an "@" of the item
\* comes out as "@".
C25_AbbreviationRoundTrip ==
    ppc \in {"l291", "done"} /\ ocr_text # <<>> =>
        /\ \A m \in 1..Len(KeptItems) :
               RestorePeriods(ProtectAbbrev(KeptItems[m])) = KeptItems[m]
        /\ CountAll(processed_items, "@") = CountAll(KeptItems, "@")

\* the word that ends with the "." at index n: the letters before it and the "."
WordEndingAt(item, n) ==
    Slice(item, RunStart(item, n - 1, UpperLetters \cup LowerLetters), n + 1)

\* a "." followed by whitespace and an uppercase letter, the word it ends
\* not being a listed abbreviation
SentencePeriod(item, n) ==
    LET m == RunEnd(item, n + 1, Space)
    IN  /\ item[n] = "."
        /\ m > n + 1
        /\ m <= Len(item) /\ item[m] \in UpperLetters
        /\ \A a \in 1..Len(CommonAbbrev) :
               Lower(WordEndingAt(item, n)) # CommonAbbrev[a]

\* the item cut at its sentence periods, from index n on
RECURSIVE SentencesFrom(_, _, _, _)
SentencesFrom(item, n, done, cur) ==
    IF n > Len(item) THEN Append(done, cur)
    ELSE IF SentencePeriod(item, n)
         THEN SentencesFrom(item, RunEnd(item, n + 1, Space),
                            Append(done, Append(cur, ".")), <<>>)
         ELSE SentencesFrom(item, n + 1, done, Append(cur, item[n]))

RECURSIVE SentencesOfAll(_)
SentencesOfAll(items) ==
    IF items = <<>> THEN <<>>
    ELSE SentencesFrom(Head(items), 1, <<>>, <<>>) \o SentencesOfAll(Tail(items))

\* C26: an item is cut at a "." followed by whitespace and an uppercase letter
\* exactly when the word ending at that "." is not a listed abbreviation,
\* matched as a whole word whatever its letter case.
C26_SentencePeriodSplit ==
    ppc \in {"l291", "done"} /\ ocr_text # <<>> =>
        processed_items = SubpartsOfAll(SentencesOfAll(KeptItems))



---------------------------------------------------------------------------
(* EWGSkindeepAPI.find_matches on the records of a search page *)

\* most records of a page
MaxPage == 3

\* the names of the records a page can list
PageNames == {<<"G","u","m">>, gum, gum \o <<" ","x">>, oil}

\* the pages: at most MaxPage records, in the order of the page
Pages == UNION {[1..n -> {Tile(name) : name \in PageNames}] : n \in 0..MaxPage}

\* a call find_matches(soup, search_term, exact_match_only)
InitFind ==
    /\ request \in [term : {gum, oil}, exact_match_only : BOOLEAN, page : Pages]
    /\ response = [name |-> None, url |-> None]
    /\ qpc = "l99"
    /\ ListIdle /\ ClientInit /\ ParseIdle
    /\ callers = {} /\ driver = "Analyser.py"

\* find_matches runs and returns (best_match_name, best_match_url)
FindMatches ==
    /\ qpc = "l99"
    /\ response' = find_matches(request.page, request.term,
                                request.exact_match_only)
    /\ qpc' = "done"
    /\ UNCHANGED request
    /\ UNCHANGED listVars /\ UNCHANGED svcVars /\ UNCHANGED rateVars
    /\ UNCHANGED parseVars

NextFind == FindMatches

SpecFind == InitFind /\ [][NextFind]_vars

\* the first record of the page whose name satisfies the test
FirstRecord(page, Test(_)) ==
    page[CHOOSE n \in 1..Len(page) :
             /\ Test(page[n].name)
             /\ \A m \in 1..(n - 1) : ~Test(page[m].name)]

---------------------------------------------------------------------------
(* the results of smart_analyze_list as a whole *)

\* C28: in every run of smart_analyze_list each input token position
\* contributes to at most one result, as the original of a single-token
\* result or as one constituent of one combined result, and so the number of
\* results never exceeds the number of input tokens.
C28_NoTokenCountedTwice ==
    /\ \A p \in Positions : Cardinality(ResultsOf(p)) <= 1
    /\ Len(results) <= Len(ingredient_list)

\* a returned run on three tokens where two of them went into one combined
\* result and the third got a result of its own
C28_Witness ==
    /\ Returned
    /\ Len(ingredient_list) = 3
    /\ Len(results) = 2
    /\ \E n \in 1..Len(results) : Len(results[n].pos) = 2
    /\ \E n \in 1..Len(results) : Len(results[n].pos) = 1
    /\ \A p \in Positions : Cardinality(ResultsOf(p)) = 1


---------------------------------------------------------------------------
(* smart_analyze_list when every service call returns *)

\* the steps of smart_analyze_list in which no request raises
NextReturns ==
    \/ Phase1Step
    \/ Phase1End
    \/ CombineStep
    \/ CombineEnd
    \/ FinalStep
    \/ Return

\* the call has a next statement to run: a step of NextReturns is possible in
\* exactly these states (each loop has a step for its condition and one for
\* its negation)
Running == pc \in {"phase1", "combine", "final"}

\* the interpreter runs the next statement of the call as long as there is
\* one: weak fairness of NextReturns, WF_vars(NextReturns), with
\* ENABLED <<NextReturns>>_vars written as Running
SpecReturns ==
    /\ Init
    /\ [][NextReturns]_vars
    /\ ([]<>~Running \/ []<><<NextReturns>>_vars)

RECURSIVE Phase1Bound(_)
\* most queries phase 1 issues for the first n tokens: per token the direct
\* query, one query per fragment and the fuzzy query
Phase1Bound(n) ==
    IF n = 0 THEN 0
    ELSE Phase1Bound(n - 1) + 2 + Len(SplitWords(ingredient_list[n]))

\* most queries of a call: phase 1, two per adjacent pair, one per token in
\* the final loop
QueryBound ==
    LET n == Len(ingredient_list)
    IN  Phase1Bound(n) + 2 * Max(n - 1, 0) + n

\* C29: when each service call returns, smart_analyze_list terminates; every
\* iteration of the combine scan increases the index by 1 or 2; the number of
\* queries issued stays within a bound computed from the number of tokens
\* and of their fragments.
C29_Termination ==
    /\ <>Returned
    /\ [][pc = "combine" /\ pc' = "combine" => i' \in {i + 1, i + 2}]_vars
    /\ [](Len(queries) <= QueryBound)

\* a returned run whose combine scan advanced by one (the first pair did not
\* match) and then by two (the second pair matched)
C29_Witness ==
    /\ Returned
    /\ Len(unmatched) = 3
    /\ i = 3
    /\ \E n \in 1..Len(results) : results[n].pos = <<unmatchedPos[2], unmatchedPos[3]>>
    /\ Len(queries) > 2 * Len(ingredient_list)


\* the match types of a result made of two tokens, with the text that joins
\* the tokens in its query
CombinedJoin ==
    [combined_exact |-> <<" ">>, combined_comma_exact |-> <<",", " ">>]

\* the well-formedness of one result dict
WellFormed(r) ==
    /\ r.data.none <=> r.match_type = "no_match"
    /\ r.match_type = "no_match" => r.corrected = None
    /\ r.match_type = "exact" => r.corrected = r.original
    /\ r.match_type \in DOMAIN CombinedJoin =>
          /\ Len(r.pos) = 2
          /\ r.corrected = ingredient_list[r.pos[1]]
                             \o CombinedJoin[r.match_type]
                             \o ingredient_list[r.pos[2]]
          /\ \E n \in 1..Len(queries) :
                /\ queries[n].term = r.corrected
                /\ queries[n].phase = "combine"
          /\ IsExact(analyze_ingredient(r.corrected))
          /\ r.data = analyze_ingredient(r.corrected)

\* C30: every result of smart_analyze (on the token phase 1 is about to
\* analyse) and every result of smart_analyze_list has data
\* null exactly when its match_type is no_match, and then corrected is null
\* too; an exact result has corrected equal to original; a combined result
\* has corrected equal to the query string that matched, the two tokens
\* joined by ' ' or by ', '.
C30_ResultWellFormed ==
    /\ \A n \in 1..Len(results) : WellFormed(results[n])
    /\ pc = "phase1" /\ k <= Len(ingredient_list) =>
          WellFormed(smart_analyze(ingredient_list[k], k))

\* a returned list with a result combined through the comma query and a
\* no_match result
C30_Witness ==
    /\ Returned
    /\ \E n \in 1..Len(results) : results[n].match_type = "combined_comma_exact"
    /\ \E n \in 1..Len(results) :
          /\ results[n].match_type = "no_match"
          /\ results[n].data.none
    /\ \E p \in Positions :
          smart_analyze(ingredient_list[p], p).match_type = "no_match"

=============================================================================
